---- MODULE Spec2Model ----
(***************************************************************************)
(* A model of isit (src/src/main.rs): a roster export (CSV or Excel) is    *)
(* decoded into Records, every Record is converted into a RecordIserv      *)
(* with a freshly generated two-word password, and the RecordIservs are    *)
(* written to a semicolon-delimited output file.                           *)
(*                                                                         *)
(* A Rust String is a sequence of one-character strings; ByteLen gives a   *)
(* character's width in UTF-8, since the code slices by byte index.        *)
(***************************************************************************)
EXTENDS Integers, Sequences, FiniteSets, TLC

VARIABLES
    args,           \* Args: file_type, record_type
    file,           \* the input file on disk: fault, header, rows
    pc,             \* position in main
    records,        \* Vec<Record> built by get_all_*_records_in_file
    err,            \* the error value carried by a Result::Err ("none": no error)
    records_iserv,  \* Vec<RecordIserv> collected in main
    call,           \* the arguments of a call of RecordIserv::new under way, if any
    gen_calls,      \* number of calls of scheme.generate()
    out,            \* the output file on disk
    printed,        \* what main printed to standard output ("none": nothing)
    exit            \* "running", "success" (main returned) or "panic" (status 101)

vars ==
    <<args, file, pc, records, err, records_iserv, call, gen_calls, out, printed, exit>>

----------------------------------------------------------------------------
(* Bounds of the model *)

MaxRows == 3        \* data rows of the input file (Spec)
MaxKlasseLen == 3   \* characters of a klasse (SpecKlasse)
MaxNameTokens == 4  \* tokens a combined name is built of (SpecName)

----------------------------------------------------------------------------
(* Strings *)

\* Characters that take two bytes in UTF-8.
TwoByteChars == {"ü"}

ByteLen(c) == IF c \in TwoByteChars THEN 2 ELSE 1

\* str::starts_with
StartsWith(s, p) == Len(s) >= Len(p) /\ SubSeq(s, 1, Len(p)) = p

\* str::find(pat) from position i on: the first position at or after i where
\* pat occurs in s, 0 when there is none.
RECURSIVE Find(_, _, _)
Find(s, pat, i) ==
    IF i + Len(pat) - 1 > Len(s) THEN 0
    ELSE IF SubSeq(s, i, i + Len(pat) - 1) = pat THEN i
    ELSE Find(s, pat, i + 1)

\* str::split(pat): the pieces between the non-overlapping occurrences of pat,
\* left to right, empty pieces included.
RECURSIVE Split(_, _)
Split(s, pat) ==
    LET i == Find(s, pat, 1)
    IN  IF i = 0 THEN <<s>>
        ELSE <<SubSeq(s, 1, i - 1)>> \o Split(SubSeq(s, i + Len(pat), Len(s)), pat)

\* Iterator<&str>::collect::<String>(): the pieces concatenated.
RECURSIVE Collect(_)
Collect(parts) ==
    IF parts = <<>> THEN <<>> ELSE Head(parts) \o Collect(Tail(parts))

\* Whether &s[1..] is a valid slice: byte index 1 must be within s and on a
\* character boundary; otherwise the slice panics.
CanSliceFrom1(s) == Len(s) >= 1 /\ ByteLen(s[1]) = 1

SliceFrom1Mutant(s) == s

\* &s[1..] where it is valid.
SliceFrom1(s) == Tail(s)

RECURSIVE SeqsUpTo(_, _)
SeqsUpTo(S, n) ==
    IF n = 0 THEN {<<>>}
    ELSE LET shorter == SeqsUpTo(S, n - 1)
         IN  shorter \cup {Append(s, x) : s \in {t \in shorter : Len(t) = n - 1}, x \in S}

----------------------------------------------------------------------------
(* Types of main.rs *)

RecordTypes == {"Schild", "Gastschueler"}
FileTypes == {"Csv", "Excel"}

\* Number of columns the header of each export declares.
NumColumns(header) == IF header = "Schild" THEN 4 ELSE 3

RecordSchild(fields) ==
    [tag |-> "RecordSchild", nachname |-> fields[1], vorname |-> fields[2],
     klasse |-> fields[3], guid |-> fields[4]]

RecordGastschueler(fields) ==
    [tag |-> "RecordGastschueler", name |-> fields[1], klasse |-> fields[2],
     schuelernr |-> fields[3]]

\* rdr.deserialize() / RangeDeserializer on one row: the row must have as many
\* fields as the header, and the header must declare the columns of the
\* selected record type; a String field takes any text, the empty text too.
DeserializeOk(header, row, record_type) ==
    Len(row) = NumColumns(header) /\ header = record_type

Deserialize(row, record_type) ==
    IF record_type = "Schild" THEN RecordSchild(row) ELSE RecordGastschueler(row)

----------------------------------------------------------------------------
(* The passphrase scheme of RecordIserv::new *)

\* res/words.txt, the word list: a small sample of it.
WORDLIST == {<<"o", "f", "e", "n">>, <<"T", "a", "l">>}

ConfigWords == 2

ConfigMutant ==
    [words |-> ConfigWords + 1, separator |-> <<"-">>, capitalize_first |-> "Never"]

\* BasicConfig as RecordIserv::new sets it.
Config ==
    [words |-> ConfigWords, separator |-> <<"-">>, capitalize_first |-> "Never"]

Upper(c) ==
    CASE c = "o" -> "O"
      [] c = "f" -> "F"
      [] c = "e" -> "E"
      [] c = "n" -> "N"
      [] c = "a" -> "A"
      [] c = "l" -> "L"
      [] OTHER -> c

\* The word with its first character in upper case.
CapitalizeFirst(w) == IF w = <<>> THEN w ELSE <<Upper(w[1])>> \o Tail(w)

\* Probability::Never never applies the styler, Probability::Always always does.
StyleChoices(probability) ==
    CASE probability = "Never" -> {FALSE}
      [] probability = "Always" -> {TRUE}
      [] OTHER -> BOOLEAN

RECURSIVE JoinWords(_, _)
JoinWords(ws, separator) ==
    IF ws = <<>> THEN <<>>
    ELSE IF Len(ws) = 1 THEN ws[1]
    ELSE ws[1] \o separator \o JoinWords(Tail(ws), separator)

\* The passwords scheme.generate() can return: config.words words sampled from
\* the word list, each styled, joined by the separator.
Passwords ==
    {JoinWords([i \in 1..Config.words |->
                    IF caps[i] THEN CapitalizeFirst(ws[i]) ELSE ws[i]],
               Config.separator) :
        ws \in [1..Config.words -> WORDLIST],
        caps \in [1..Config.words -> StyleChoices(Config.capitalize_first)]}

\* RecordIserv::new
RecordIservNew(nachname, vorname, klasse, import_id, password) ==
    [nachname |-> nachname, vorname |-> vorname, klasse |-> klasse,
     import_id |-> import_id, password |-> password]

----------------------------------------------------------------------------
(* The conversions into RecordIserv.  Each gives the arguments of          *)
(* RecordIserv::new, or Panicked where the code panics before calling it.  *)

Panicked == [panicked |-> TRUE]

NewArgs(nachname, vorname, klasse, import_id) ==
    [panicked |-> FALSE, nachname |-> nachname, vorname |-> vorname,
     klasse |-> klasse, import_id |-> import_id]

KlasseMutant(klasse) ==
    IF StartsWith(klasse, <<"1", "1">>) THEN <<"1", "1">>
    ELSE IF StartsWith(klasse, <<"1", "2">>) THEN <<"1", "2">>
    ELSE klasse

\* The klasse of impl From<RecordSchild> for RecordIserv.
Klasse(klasse) ==
    IF StartsWith(klasse, <<"1", "1">>) THEN <<"1", "1">>
    ELSE IF StartsWith(klasse, <<"1", "2">>) THEN <<"1", "2">>
    ELSE IF StartsWith(klasse, <<"1", "3">>) THEN <<"1", "3">>
    ELSE klasse

FromRecordSchildMutant(record) ==
    NewArgs(record.vorname, record.nachname, Klasse(record.klasse), record.guid)

\* impl From<RecordSchild> for RecordIserv
FromRecordSchild(record) ==
    NewArgs(record.nachname, record.vorname, Klasse(record.klasse), record.guid)

NameSeparator == <<",", " ">>
GuestMarker == <<" ", "(", "G", ")">>

\* impl From<RecordGastschueler> for RecordIserv
FromRecordGastschueler(record) ==
    LET name == Split(record.name, NameSeparator)
    IN  IF ~CanSliceFrom1(name[1]) THEN Panicked          \* &name[0][1..]
        ELSE IF Len(name) < 2 THEN Panicked               \* name[1]
        ELSE NewArgs(SliceFrom1(name[1]),
                     Collect(Split(name[2], GuestMarker)),
                     record.klasse, record.schuelernr)

\* impl From<Record> for RecordIserv
FromRecord(record) ==
    IF record.tag = "RecordSchild" THEN FromRecordSchild(record)
    ELSE FromRecordGastschueler(record)

\* wtr.serialize(record): the fields in declaration order.
Serialize(record) ==
    <<record.nachname, record.vorname, record.klasse, record.import_id,
      record.password>>

----------------------------------------------------------------------------
(* Input files *)

SchildRows ==
    { <<<<"M", "u">>, <<"A", "n">>, <<"1", "1", "b">>, <<"7">>>>,
      <<<<"K", "o">>, <<>>, <<"A", "B", "I">>, <<"8">>>>,
      <<<<"K", "o">>, <<"8">>>> }

GastschuelerRows ==
    { <<<<"X", "M", "u", ",", " ", "A", "n", " ", "(", "G", ")">>, <<"7">>, <<"5">>>>,
      <<<<"M", "u">>, <<"7">>, <<"6">>>>,
      <<<<"7">>, <<"6">>>> }

RowPool(header) == IF header = "Schild" THEN SchildRows ELSE GastschuelerRows

\* The faults a file of the given type can have: it cannot be opened, its
\* first sheet has no readable range, or the workbook has no sheet at all.
Faults(file_type) ==
    IF file_type = "Csv" THEN {"none", "open"}
    ELSE {"none", "open", "range", "nosheet"}

NoOutput == [created |-> FALSE, header |-> FALSE, rows |-> <<>>]

\* The state as main starts: the arguments are parsed, nothing is read.
Start(a, f) ==
    /\ args = a
    /\ file = f
    /\ pc = "open"
    /\ records = <<>>
    /\ err = "none"
    /\ records_iserv = <<>>
    /\ call = <<>>
    /\ gen_calls = 0
    /\ out = NoOutput
    /\ printed = "none"
    /\ exit = "running"

Init ==
    \E file_type \in FileTypes, record_type \in RecordTypes, header \in RecordTypes :
        \E fault \in Faults(file_type), rows \in SeqsUpTo(RowPool(header), MaxRows) :
            Start([file_type |-> file_type, record_type |-> record_type],
                  [fault |-> fault, header |-> header, rows |-> rows])

----------------------------------------------------------------------------
(* main *)

\* A panic unwinds main: the process ends with status 101.
Panic ==
    /\ pc' = "exit"
    /\ exit' = "panic"

\* A function returned Err(e) to main.
Fail(e) ==
    /\ err' = e
    /\ pc' = "report"

OpenCsvMutant ==
    /\ pc = "open"
    /\ args.file_type = "Csv"
    /\ IF file.fault = "open"
       THEN Fail("open") /\ UNCHANGED exit
       ELSE pc' = "read" /\ UNCHANGED <<err, exit>>
    /\ UNCHANGED <<args, file, records, records_iserv, call, gen_calls, out, printed>>

\* get_all_csv_records_in_file up to the reader: File::open(path).unwrap()
OpenCsv ==
    /\ pc = "open"
    /\ args.file_type = "Csv"
    /\ IF file.fault = "open"
       THEN Panic /\ UNCHANGED err
       ELSE pc' = "read" /\ UNCHANGED <<err, exit>>
    /\ UNCHANGED <<args, file, records, records_iserv, call, gen_calls, out, printed>>

OpenXlsxMutant ==
    /\ pc = "open"
    /\ args.file_type = "Excel"
    /\ IF file.fault = "open" THEN Fail("open") /\ UNCHANGED exit
       ELSE IF file.fault = "nosheet" THEN Panic /\ UNCHANGED err
       ELSE pc' = "read" /\ UNCHANGED <<err, exit>>
    /\ UNCHANGED <<args, file, records, records_iserv, call, gen_calls, out, printed>>

\* get_all_xlsx_records_in_file up to the row iterator: open_workbook(path)?,
\* &sheets[0], worksheet_range(..).ok_or(..)??, from_range(&range)?
OpenXlsx ==
    /\ pc = "open"
    /\ args.file_type = "Excel"
    /\ IF file.fault = "open" THEN Fail("open") /\ UNCHANGED exit
       ELSE IF file.fault = "nosheet" THEN Panic /\ UNCHANGED err
       ELSE IF file.fault = "range" THEN Fail("range") /\ UNCHANGED exit
       ELSE pc' = "read" /\ UNCHANGED <<err, exit>>
    /\ UNCHANGED <<args, file, records, records_iserv, call, gen_calls, out, printed>>

RowErrorMutant ==
    /\ pc' = "convert"
    /\ UNCHANGED <<records, err>>

\* `result?` on a row that does not deserialize: the function returns the
\* error and the records read so far are dropped with it.
RowError ==
    /\ Fail("decode")
    /\ records' = <<>>

\* One turn of the row loop: `let record = result?; records.push(..)`, or
\* Ok(records) when the rows are exhausted.
ReadRow ==
    /\ pc = "read"
    /\ IF Len(records) = Len(file.rows)
       THEN pc' = "convert" /\ UNCHANGED <<records, err>>
       ELSE LET row == file.rows[Len(records) + 1]
            IN  IF DeserializeOk(file.header, row, args.record_type)
                THEN /\ records' = Append(records, Deserialize(row, args.record_type))
                     /\ UNCHANGED <<pc, err>>
                ELSE RowError
    /\ UNCHANGED <<args, file, records_iserv, call, gen_calls, out, printed, exit>>

\* One turn of r.into_iter().map(|r| r.into()).collect(), up to the call of
\* RecordIserv::new: the conversion works out the arguments, or panics.
Into ==
    /\ pc = "convert"
    /\ call = <<>>
    /\ Len(records_iserv) < Len(records)
    /\ LET a == FromRecord(records[Len(records_iserv) + 1])
       IN  IF a.panicked
           THEN Panic /\ UNCHANGED call
           ELSE call' = <<a>> /\ UNCHANGED <<pc, exit>>
    /\ UNCHANGED <<args, file, records, err, records_iserv, gen_calls, out, printed>>

\* RecordIserv::new: scheme.generate() gives the password, and the record
\* built joins the collected ones.
New ==
    /\ pc = "convert"
    /\ call # <<>>
    /\ \E password \in Passwords :
           records_iserv' = Append(records_iserv,
               RecordIservNew(call[1].nachname, call[1].vorname, call[1].klasse,
                              call[1].import_id, password))
    /\ gen_calls' = gen_calls + 1
    /\ call' = <<>>
    /\ UNCHANGED <<args, file, pc, records, err, out, printed, exit>>

\* write_records_to_file: csv::WriterBuilder::new().delimiter(b';').from_path(path)?
CreateOutput ==
    /\ pc = "convert"
    /\ call = <<>>
    /\ Len(records_iserv) = Len(records)
    /\ \E ok \in BOOLEAN :
           IF ok
           THEN /\ out' = [created |-> TRUE, header |-> FALSE, rows |-> <<>>]
                /\ pc' = "write"
                /\ UNCHANGED err
           ELSE Fail("create") /\ UNCHANGED out
    /\ UNCHANGED <<args, file, records, records_iserv, call, gen_calls, printed, exit>>

WriteNextMutant == Len(records_iserv) - Len(out.rows)

\* The record the writing loop is at.
WriteNext == Len(out.rows) + 1

\* One turn of `for record in records { wtr.serialize(record)?; }`: the header
\* goes out before the first record.
WriteRecord ==
    /\ pc = "write"
    /\ Len(out.rows) < Len(records_iserv)
    /\ \E ok \in BOOLEAN :
           IF ok
           THEN /\ out' = [created |-> TRUE, header |-> TRUE,
                           rows |-> Append(out.rows, Serialize(records_iserv[WriteNext]))]
                /\ UNCHANGED <<pc, err>>
           ELSE Fail("serialize") /\ UNCHANGED out
    /\ UNCHANGED <<args, file, records, records_iserv, call, gen_calls, printed, exit>>

\* wtr.flush()?; Ok(()) and main's return
Flush ==
    /\ pc = "write"
    /\ Len(out.rows) = Len(records_iserv)
    /\ \E ok \in BOOLEAN :
           IF ok
           THEN pc' = "exit" /\ exit' = "success" /\ UNCHANGED err
           ELSE Fail("flush") /\ UNCHANGED exit
    /\ UNCHANGED <<args, file, records, records_iserv, call, gen_calls, out, printed>>

\* Err(e) => println!("{:?}", e), and main returns
Report ==
    /\ pc = "report"
    /\ printed' = err
    /\ pc' = "exit"
    /\ exit' = "success"
    /\ UNCHANGED <<args, file, records, err, records_iserv, call, gen_calls, out>>

Next ==
    \/ OpenCsv
    \/ OpenXlsx
    \/ ReadRow
    \/ Into
    \/ New
    \/ CreateOutput
    \/ WriteRecord
    \/ Flush
    \/ Report

Spec == Init /\ [][Next]_vars

----------------------------------------------------------------------------
(* The same program on one-row roster exports whose klasse ranges over     *)
(* every string of the bound.                                              *)

KlasseChars == {"0", "1", "2", "3", "b"}

KlasseInputs ==
    SeqsUpTo(KlasseChars, MaxKlasseLen) \cup {<<"A", "B", "I">>, <<"1", "1", "b">>}

InitKlasse ==
    \E file_type \in FileTypes, klasse \in KlasseInputs :
        Start([file_type |-> file_type, record_type |-> "Schild"],
              [fault |-> "none", header |-> "Schild",
               rows |-> << <<<<"M", "u">>, <<"A", "n">>, klasse, <<"7">>>> >>])

SpecKlasse == InitKlasse /\ [][Next]_vars

----------------------------------------------------------------------------
(* The same program on one-row guest-student exports whose combined name   *)
(* ranges over every concatenation of tokens of the bound.                 *)

NameTokens == {<<"X">>, <<"ü">>, <<",">>, NameSeparator, GuestMarker}

Mueller == <<"M", "ü", "l", "l", "e", "r">>
Anna == <<"A", "n", "n", "a">>

NameInputs ==
    {Collect(ts) : ts \in SeqsUpTo(NameTokens, MaxNameTokens)}
        \cup {Mueller \o NameSeparator \o Anna \o GuestMarker,
              <<"X", "X">> \o NameSeparator \o <<"X", ",">> \o GuestMarker,
              <<"X", "X">> \o NameSeparator \o <<"X">> \o NameSeparator \o <<"X">>
                  \o GuestMarker,
              <<"X", "X">> \o NameSeparator \o <<"X">> \o GuestMarker \o <<"X">>
                  \o GuestMarker}

InitName ==
    \E file_type \in FileTypes, name \in NameInputs :
        Start([file_type |-> file_type, record_type |-> "Gastschueler"],
              [fault |-> "none", header |-> "Gastschueler",
               rows |-> << <<name, <<"7">>, <<"5">>>> >>])

SpecName == InitName /\ [][Next]_vars

----------------------------------------------------------------------------
(* Properties *)

\* The positions at which pat occurs in s.
Occurrences(s, pat) ==
    {i \in 1..(Len(s) - Len(pat) + 1) : SubSeq(s, i, i + Len(pat) - 1) = pat}

Min(S) == CHOOSE m \in S : \A n \in S : m <= n

\* The input rows that do not decode into the selected record type.
Undecodable ==
    {i \in 1..Len(file.rows) :
        ~DeserializeOk(file.header, file.rows[i], args.record_type)}

ReadErrors == {"open", "range", "decode"}
WriteErrors == {"create", "serialize", "flush"}

\* main returned without having met any error.
Succeeded == pc = "exit" /\ exit = "success" /\ err = "none"

HasSeparator(name) == Occurrences(name, NameSeparator) # {}

\* C2: a guest-student record whose combined name lacks ", " fails per row:
\* the run is not aborted, the row is left out and every other row is written.
C2_MalformedNameSkipped ==
    (/\ args.record_type = "Gastschueler"
     /\ Undecodable = {}
     /\ file.fault = "none"
     /\ pc = "exit"
     /\ err \notin WriteErrors)
        => /\ exit = "success"
           /\ Len(out.rows) =
                 Cardinality({i \in 1..Len(file.rows) : HasSeparator(file.rows[i][1])})

GradePrefixes == {<<"1", "1">>, <<"1", "2">>, <<"1", "3">>}

\* C3: the class label of a roster record is its klasse's grade prefix when
\* the klasse starts with one of the configured prefixes, and the klasse
\* unchanged when it starts with none.
C3_KlasseBucketing ==
    \A i \in 1..Len(records_iserv) :
        records[i].tag = "RecordSchild" =>
            LET klasse == records[i].klasse
                label == records_iserv[i].klasse
            IN  /\ \A p \in GradePrefixes : StartsWith(klasse, p) => label = p
                /\ (\A p \in GradePrefixes : ~StartsWith(klasse, p)) => label = klasse

\* C3's case: "11b" was normalized to "11".
C3_Witness ==
    /\ Len(records_iserv) = 1
    /\ records[1].tag = "RecordSchild"
    /\ records[1].klasse = <<"1", "1", "b">>
    /\ records_iserv[1].klasse = <<"1", "1">>

\* The text of name before position k + 1, where a ", " starts.
SurnameAt(name, k) == SubSeq(name, 1, k)

\* The text of name between the ", " after position k and a final " (G)".
GivenAt(name, k) ==
    SubSeq(name, k + Len(NameSeparator) + 1, Len(name) - Len(GuestMarker))

\* name is "<Surname>, <Given> (G)" with a <Surname> of k characters, and
\* holds ", " and " (G)" nowhere else.
IsGuestForm(name, k) ==
    /\ Len(name) >= k + Len(NameSeparator) + Len(GuestMarker)
    /\ Occurrences(name, NameSeparator) = {k + 1}
    /\ Occurrences(name, GuestMarker) = {Len(name) - Len(GuestMarker) + 1}

\* C4, as stated: a combined name "<Surname>, <Given> (G)" (with ", " and
\* " (G)" nowhere else) is normalized to the full <Surname> and to <Given>.
C4_FullSurname ==
    \A i \in 1..Len(records_iserv) :
        records[i].tag = "RecordGastschueler" =>
            \A k \in 0..Len(records[i].name) :
                IsGuestForm(records[i].name, k) =>
                    /\ records_iserv[i].nachname = SurnameAt(records[i].name, k)
                    /\ records_iserv[i].vorname = GivenAt(records[i].name, k)

\* C4, amended: a combined name "<Surname>, <Given> (G)" that holds ", " and
\* " (G)" nowhere else and whose <Surname> starts with a one-byte character
\* is normalized to <Surname> without its first character and to <Given>:
\* "Müller, Anna (G)" gives "üller" and "Anna".  No other name of this form
\* is normalized at all.
C4_SurnameWithoutFirstChar ==
    \A i \in 1..Len(records_iserv) :
        records[i].tag = "RecordGastschueler" =>
            \A k \in 0..Len(records[i].name) :
                IsGuestForm(records[i].name, k) =>
                    /\ k >= 1
                    /\ ByteLen(records[i].name[1]) = 1
                    /\ records_iserv[i].nachname = Tail(SurnameAt(records[i].name, k))
                    /\ records_iserv[i].vorname = GivenAt(records[i].name, k)

\* C4's case: "Müller, Anna (G)" was normalized.
C4_Witness ==
    /\ Len(records_iserv) = 1
    /\ records[1].tag = "RecordGastschueler"
    /\ records[1].name = Mueller \o NameSeparator \o Anna \o GuestMarker
    /\ records_iserv[1].nachname = Tail(Mueller)
    /\ records_iserv[1].vorname = Anna

\* C5: the output holds one row per normalized record, in the order of the
\* input rows: row i is record i, made from input row i (whose last column is
\* the import id), and a run that ends without error has written them all.
C5_OutputInInputOrder ==
    /\ Len(out.rows) <= Len(records_iserv)
    /\ \A i \in 1..Len(out.rows) :
          /\ out.rows[i] = <<records_iserv[i].nachname, records_iserv[i].vorname,
                             records_iserv[i].klasse, records_iserv[i].import_id,
                             records_iserv[i].password>>
          /\ out.rows[i][4] = file.rows[i][Len(file.rows[i])]
    /\ Succeeded =>
          /\ Len(out.rows) = Len(records_iserv)
          /\ Len(out.rows) = Len(file.rows)

\* C5's case: a run has written three rows, the first two made from different
\* input rows.
C5_Witness ==
    /\ Succeeded
    /\ Len(out.rows) = 3
    /\ file.rows[1] # file.rows[2]
    /\ out.rows[1][4] = file.rows[1][4]
    /\ out.rows[2][4] = file.rows[2][4]

\* A record's conversion panics.
ConversionPanics ==
    \E i \in 1..Len(records) : FromRecord(records[i]).panicked

\* C6, as stated: when the source cannot be opened or the output cannot be
\* written, the process ends with a failure status.
C6_FailureStatus ==
    (pc = "exit" /\ (file.fault = "open" \/ err \in WriteErrors))
        => exit # "success"

\* C6, amended: every error returned to main (a workbook that cannot be opened
\* or has no readable range, a row that does not decode, an output file that
\* cannot be created, a failed serialize or flush) is printed and the process
\* then ends with the normal, successful status; the process ends abnormally
\* exactly when it panics: a text file that cannot be opened, a workbook
\* without a sheet, or a record whose conversion panics.
C6_PrintedAndNormalExit ==
    pc = "exit" =>
        /\ err \in ReadErrors \cup WriteErrors => exit = "success" /\ printed = err
        /\ (args.file_type = "Csv" /\ file.fault = "open") => exit = "panic"
        /\ exit = "panic" <=>
              \/ args.file_type = "Csv" /\ file.fault = "open"
              \/ args.file_type = "Excel" /\ file.fault = "nosheet"
              \/ ConversionPanics
        /\ exit = "panic" => printed = "none"

\* C6's case: a flush failed; the error was printed and main returned normally.
C6_Witness ==
    /\ pc = "exit"
    /\ err = "flush"
    /\ printed = "flush"
    /\ exit = "success"

TwoWordPasswords == {w1 \o <<"-">> \o w2 : w1 \in WORDLIST, w2 \in WORDLIST}

\* C8: there is one call of the generator per normalized record; every
\* password is two words of the word list, as they stand in it, joined by
\* "-"; and whatever the earlier records got, a record being built can get
\* any of these passwords.
C8_TwoWordPassword ==
    /\ gen_calls = Len(records_iserv)
    /\ \A i \in 1..Len(records_iserv) : records_iserv[i].password \in TwoWordPasswords
    /\ call # <<>> =>
          \A p \in TwoWordPasswords :
              ENABLED (New /\ records_iserv'[Len(records_iserv')].password = p)

\* C8's case: two records were normalized and got different passwords.
C8_Witness ==
    /\ Len(records_iserv) = 2
    /\ gen_calls = 2
    /\ records_iserv[1].password = <<"T", "a", "l", "-", "o", "f", "e", "n">>
    /\ records_iserv[2].password = <<"o", "f", "e", "n", "-", "o", "f", "e", "n">>

\* s without a trailing " (G)", if it has one.
WithoutTrailingMarker(s) ==
    IF /\ Len(s) >= Len(GuestMarker)
       /\ SubSeq(s, Len(s) - Len(GuestMarker) + 1, Len(s)) = GuestMarker
    THEN SubSeq(s, 1, Len(s) - Len(GuestMarker))
    ELSE s

\* C9: a combined name that contains ", " is split at it in two parts, without
\* failure or loss of text: the surname is the first part less its first
\* character, the given name the second part less a trailing " (G)".
C9_SplitInTwo ==
    \A i \in 1..Len(records) :
        (records[i].tag = "RecordGastschueler" /\ HasSeparator(records[i].name)) =>
            LET name == records[i].name
                at == Min(Occurrences(name, NameSeparator))
                first == SubSeq(name, 1, at - 1)
                second == SubSeq(name, at + Len(NameSeparator), Len(name))
            IN  /\ exit # "panic"
                /\ i <= Len(records_iserv) =>
                      /\ records_iserv[i].nachname = SubSeq(first, 2, Len(first))
                      /\ records_iserv[i].vorname = WithoutTrailingMarker(second)

\* C10: when the source has a fault or a row that does not decode, no record
\* is normalized, no password is generated and the output file is left as it
\* was; the output file is created only once every row has been decoded.
C10_NoOutputUnlessAllDecoded ==
    /\ (file.fault # "none" \/ Undecodable # {}) =>
          /\ records_iserv = <<>>
          /\ gen_calls = 0
          /\ out = NoOutput
    /\ (out.created \/ gen_calls > 0) =>
          /\ Len(records) = Len(file.rows)
          /\ err \notin ReadErrors

\* C10's case: decoding failed after a row had been read, and the run ended
\* without an output file.
C10_Witness ==
    /\ pc = "exit"
    /\ err = "decode"
    /\ 1 \notin Undecodable
    /\ gen_calls = 0
    /\ out = NoOutput

====
